---- MODULE Spec2Model ----
(***************************************************************************)
(* Model of server.js: the OAuth install / callback helper.                *)
(*                                                                         *)
(* JavaScript strings are sequences of one-character strings.  A query     *)
(* parameter value, as Express's query parser delivers it, is a record     *)
(* [t, v]: a string ("str"), an array of strings ("arr"), a nested object  *)
(* ("obj"), or ("hex") the 64-character lowercase hex string that is the   *)
(* HMAC-SHA256 of a message under a key.  SHA-256 itself is not computed:  *)
(* two hex digests are equal exactly when key and message are equal, and   *)
(* no string written out literally in the model equals a digest.           *)
(***************************************************************************)
EXTENDS Integers, Sequences, FiniteSets, TLC

VARIABLES
    now,        \* Date.now(), in ms since the process started
    nextSweep,  \* when the setInterval timer is next due
    stateStore, \* the Map: token -> creation time
    issued,     \* tokens drawn so far by /install
    reqs,       \* the callback handlers suspended at an await
    out,        \* the response a handler sent last
    consumed,   \* per token, how many callbacks deleted it (history)
    started,    \* token exchange POSTs issued so far (history)
    hq,         \* the query object handed to verifyHmac
    hmsg,       \* buildHmacMessage(hq)
    hres,       \* verifyHmac(hq)
    hstep,      \* what was done to hq last
    vshop,      \* the string handed to isValidShop
    vvalid,     \* isValidShop(vshop)
    vstep,      \* what was done to vshop last
    up,         \* two answers of the exchange endpoint and what became of them
    env,        \* process.env: the four required settings
    boot        \* how far the module's start-up got

qvars == <<hq, hmsg, hres, hstep>>
pvars == <<vshop, vvalid, vstep>>
xvars == <<up>>
bvars == <<env, boot>>
hvars == <<qvars, pvars, xvars, bvars>>
svars == <<now, nextSweep, stateStore, issued, reqs, out, consumed, started>>
vars == <<svars, hvars>>

(***************************************************************************)
(* Strings                                                                 *)
(***************************************************************************)
\* UTF-16 code units of the characters the model uses (all ASCII)
CharCode ==
    " " :> 32 @@ "%" :> 37 @@ "&" :> 38 @@ "," :> 44 @@ "-" :> 45 @@ "." :>
    46 @@ "0" :> 48 @@ "1" :> 49 @@ "2" :> 50 @@ "3" :> 51 @@ "4" :> 52 @@
    "5" :> 53 @@ "6" :> 54 @@ "7" :> 55 @@ "8" :> 56 @@ "9" :> 57 @@ "=" :>
    61 @@ "A" :> 65 @@ "B" :> 66 @@ "C" :> 67 @@ "D" :> 68 @@ "E" :> 69 @@
    "F" :> 70 @@ "G" :> 71 @@ "H" :> 72 @@ "I" :> 73 @@ "J" :> 74 @@ "K" :>
    75 @@ "L" :> 76 @@ "M" :> 77 @@ "N" :> 78 @@ "O" :> 79 @@ "P" :> 80 @@
    "Q" :> 81 @@ "R" :> 82 @@ "S" :> 83 @@ "T" :> 84 @@ "U" :> 85 @@ "V" :>
    86 @@ "W" :> 87 @@ "X" :> 88 @@ "Y" :> 89 @@ "Z" :> 90 @@ "[" :> 91 @@
    "]" :> 93 @@ "_" :> 95 @@ "a" :> 97 @@ "b" :> 98 @@ "c" :> 99 @@ "d" :>
    100 @@ "e" :> 101 @@ "f" :> 102 @@ "g" :> 103 @@ "h" :> 104 @@ "i" :>
    105 @@ "j" :> 106 @@ "k" :> 107 @@ "l" :> 108 @@ "m" :> 109 @@ "n" :>
    110 @@ "o" :> 111 @@ "p" :> 112 @@ "q" :> 113 @@ "r" :> 114 @@ "s" :>
    115 @@ "t" :> 116 @@ "u" :> 117 @@ "v" :> 118 @@ "w" :> 119 @@ "x" :>
    120 @@ "y" :> 121 @@ "z" :> 122

\* characters encodeURIComponent leaves alone, among those of the model
UriUnreserved ==
    {"-", ".", "0", "1", "2", "3", "4", "5", "6", "7", "8", "9", "A", "B",
    "C", "D", "E", "F", "G", "H", "I", "J", "K", "L", "M", "N", "O", "P",
    "Q", "R", "S", "T", "U", "V", "W", "X", "Y", "Z", "_", "a", "b", "c",
    "d", "e", "f", "g", "h", "i", "j", "k", "l", "m", "n", "o", "p", "q",
    "r", "s", "t", "u", "v", "w", "x", "y", "z"}

\* [a-zA-Z0-9] among the characters of the model
AlphaNum ==
    {"0", "1", "2", "3", "4", "5", "6", "7", "8", "9", "A", "B", "C", "D",
    "E", "F", "G", "H", "I", "J", "K", "L", "M", "N", "O", "P", "Q", "R",
    "S", "T", "U", "V", "W", "X", "Y", "Z", "a", "b", "c", "d", "e", "f",
    "g", "h", "i", "j", "k", "l", "m", "n", "o", "p", "q", "r", "s", "t",
    "u", "v", "w", "x", "y", "z"}

HexDigits == <<"0", "1", "2", "3", "4", "5", "6", "7", "8", "9",
               "A", "B", "C", "D", "E", "F">>

\* a < b in the order of String.prototype's comparison (code units)
RECURSIVE StrLess(_, _)
StrLess(a, b) ==
    IF a = <<>> THEN b # <<>>
    ELSE IF b = <<>> THEN FALSE
    ELSE IF Head(a) # Head(b) THEN CharCode[Head(a)] < CharCode[Head(b)]
    ELSE StrLess(Tail(a), Tail(b))

\* Array.prototype.join(sep) over an array of strings
RECURSIVE Join(_, _)
Join(arr, sep) ==
    IF arr = <<>> THEN <<>>
    ELSE IF Len(arr) = 1 THEN arr[1]
    ELSE arr[1] \o sep \o Join(Tail(arr), sep)

Str(s) == [t |-> "str", v |-> s]
Arr(a) == [t |-> "arr", v |-> a]
Obj == [t |-> "obj", v |-> <<>>]
Hex(k, m) == [t |-> "hex", v |-> <<k, m>>]
Undefined == [t |-> "undef", v |-> <<>>]

ObjectObject == <<"[", "o", "b", "j", "e", "c", "t", " ", "O", "b", "j", "e", "c", "t", "]">>

\* String(value): the coercion a template literal, RegExp.test and
\* encodeURIComponent apply to a non-string
StringOf(val) ==
    CASE val.t = "str" -> val.v
      [] val.t = "arr" -> Join(val.v, <<",">>)
      [] val.t = "obj" -> ObjectObject
      [] OTHER -> <<"u", "n", "d", "e", "f", "i", "n", "e", "d">>

\* !value
Falsy(val) == val.t = "undef" \/ (val.t = "str" /\ val.v = <<>>)

EncodeChar(c) ==
    IF c \in UriUnreserved THEN <<c>>
    ELSE <<"%", HexDigits[(CharCode[c] \div 16) + 1],
                HexDigits[(CharCode[c] % 16) + 1]>>

RECURSIVE encodeURIComponent(_)
encodeURIComponent(s) ==
    IF s = <<>> THEN <<>>
    ELSE EncodeChar(Head(s)) \o encodeURIComponent(Tail(s))

(***************************************************************************)
(* Configuration and pure helpers of server.js                             *)
(***************************************************************************)
\* the configured secret, and some other key a forger might sign with
CLIENT_SECRET == "secret"
OtherKey == "other"

\* String.prototype.trim: white space removed from both ends
RECURSIVE TrimStart(_)
TrimStart(s) ==
    IF s # <<>> /\ Head(s) = " " THEN TrimStart(Tail(s)) ELSE s

RECURSIVE TrimEnd(_)
TrimEnd(s) ==
    IF s # <<>> /\ s[Len(s)] = " " THEN TrimEnd(SubSeq(s, 1, Len(s) - 1)) ELSE s

Trim(s) == TrimStart(TrimEnd(s))

\* process.env.SHOPIFY_CLIENT_SECRET?.trim()
OptionalTrim(val) == IF val.t = "undef" THEN Undefined ELSE Str(Trim(val.v))

\* The module's top level up to app.listen: "aborted" when one of the two
\* checks throws, "listening" otherwise.
StartupOutcome(e) ==
    LET clientId == e.SHOPIFY_CLIENT_ID
        clientSecret == OptionalTrim(e.SHOPIFY_CLIENT_SECRET)
    IN  IF \/ Falsy(clientId) \/ Falsy(clientSecret)
           \/ Falsy(e.SHOPIFY_SCOPES) \/ Falsy(e.SHOPIFY_REDIRECT_URI)
        THEN "aborted"
        ELSE IF clientSecret = clientId THEN "aborted"
        ELSE "listening"

\* a configuration the checks let through
GoodEnv ==
    [SHOPIFY_CLIENT_ID |-> Str(<<"k">>),
     SHOPIFY_CLIENT_SECRET |-> Str(<<"s">>),
     SHOPIFY_SCOPES |-> Str(<<"r">>),
     SHOPIFY_REDIRECT_URI |-> Str(<<"u">>)]

STATE_TTL_MS == 600000
SWEEP_INTERVAL_MS == 60000
\* length of the hex rendering of a SHA-256 digest
HexDigestLen == 64

ShopSuffix == <<".", "m", "y", "s", "h", "o", "p", "i", "f", "y", ".", "c", "o", "m">>

\* the pattern without its first character class
isValidShopAnyFirst(shop) ==
    LET s == StringOf(shop)
        n == Len(s) - Len(ShopSuffix)
    IN  /\ n >= 1
        /\ \A i \in 1..n : s[i] \in AlphaNum \cup {"-"}
        /\ SubSeq(s, n + 1, Len(s)) = ShopSuffix

\* /^[a-zA-Z0-9][a-zA-Z0-9\-]*\.myshopify\.com$/.test(shop)
isValidShop(shop) ==
    LET s == StringOf(shop)
        n == Len(s) - Len(ShopSuffix)
    IN  /\ n >= 1
        /\ s[1] \in AlphaNum
        /\ \A i \in 2..n : s[i] \in AlphaNum \cup {"-"}
        /\ SubSeq(s, n + 1, Len(s)) = ShopSuffix

\* Buffer.from(value, 'utf-8').length, for the values Buffer.from accepts
ByteLength(val) ==
    CASE val.t = "hex" -> HexDigestLen
      [] OTHER -> Len(val.v)

\* Buffer.from throws a TypeError for a plain object
BufferFromThrows(val) == val.t \in {"obj", "undef"}

\* crypto.timingSafeEqual over two buffers of the same length
timingSafeEqual(a, b) == a = b

\* "true", "false", or "throw" when Buffer.from rejects an argument
safeCompare(a, b) ==
    IF BufferFromThrows(a) \/ BufferFromThrows(b) THEN "throw"
    ELSE IF ByteLength(a) # ByteLength(b) THEN "false"
    ELSE IF timingSafeEqual(a, b) THEN "true" ELSE "false"

kShop == <<"s", "h", "o", "p">>
kCode == <<"c", "o", "d", "e">>
kState == <<"s", "t", "a", "t", "e">>
kHmac == <<"h", "m", "a", "c">>
kSignature == <<"s", "i", "g", "n", "a", "t", "u", "r", "e">>

\* A query object is a sequence of <<key, value>> entries with distinct
\* keys, in insertion order.
Keys(query) == [i \in 1..Len(query) |-> query[i][1]]

\* query[key]
Get(query, key) ==
    IF \E i \in 1..Len(query) : query[i][1] = key
    THEN query[CHOOSE i \in 1..Len(query) : query[i][1] = key][2]
    ELSE Undefined

\* Array.prototype.sort() without a comparator, over strings
RECURSIVE Insert(_, _)
Insert(k, sorted) ==
    IF sorted = <<>> THEN <<k>>
    ELSE IF StrLess(k, Head(sorted)) THEN <<k>> \o sorted
    ELSE <<Head(sorted)>> \o Insert(k, Tail(sorted))

\* the keys left in insertion order
SortSkipped(keys) == keys

RECURSIVE Sort(_)
Sort(keys) ==
    IF keys = <<>> THEN <<>> ELSE Insert(Head(keys), Sort(Tail(keys)))

\* const { hmac, signature, ...rest } = query
Rest(query) == SelectSeq(query, LAMBDA e : e[1] \notin {kHmac, kSignature})

\* the elements of an array sorted before they are joined
FlatValueSorted(val) ==
    IF val.t = "arr" THEN Join(Sort(val.v), <<",">>) ELSE StringOf(val)

\* Array.isArray(rest[key]) ? rest[key].join(',') : rest[key], then the
\* string coercion of encodeURIComponent
FlatValue(val) == IF val.t = "arr" THEN Join(val.v, <<",">>) ELSE StringOf(val)

SortedKeys(query) == Sort(Keys(Rest(query)))

buildHmacMessage(query) ==
    LET keys == SortedKeys(query)
        part(key) == encodeURIComponent(key) \o <<"=">>
                     \o encodeURIComponent(FlatValue(Get(query, key)))
    IN  Join([i \in 1..Len(keys) |-> part(keys[i])], <<"&">>)

\* crypto.createHmac('sha256', CLIENT_SECRET).update(message).digest('hex')
Calculated(message) == Hex(CLIENT_SECRET, message)

\* "true", "false" or "throw"
verifyHmac(query) ==
    LET hmac == Get(query, kHmac) IN
    IF Falsy(hmac) THEN "false"
    ELSE safeCompare(Calculated(buildHmacMessage(query)), hmac)

(***************************************************************************)
(* Bounds of the model                                                     *)
(***************************************************************************)
\* tokens /install may issue
MaxInstalls == 2
\* callback requests served
MaxReq == 2
\* steps of the clock while requests of every shape are served
MaxTicks == 1
\* steps of the clock in the specification of the token lifetime: enough for
\* a token to outlive STATE_TTL_MS and the sweep after it
MaxTtlTicks == 12

\* the clock advances in steps of one sweep period
TickMs == SWEEP_INTERVAL_MS

Requests == 1..MaxReq

(***************************************************************************)
(* The state registry                                                      *)
(***************************************************************************)
\* crypto.randomBytes(16).toString('hex'): the n-th token drawn.  The model
\* takes the 128 random bits to be fresh: no value is drawn twice.
TokenStr(n) == <<"f", HexDigits[n + 1]>>

Tokens == {TokenStr(n) : n \in 1..MaxInstalls}

\* a lookup that only asks for a string
HasAnyString(store, state) == state.t = "str"

\* stateStore.has(state): a Map key that is an array or an object is never
\* the string stored
Has(store, state) == state.t = "str" /\ state.v \in DOMAIN store

\* a store that holds the newest token only
MapSetAlone(store, key, createdAt) == [k \in {key} |-> createdAt]

\* stateStore.set(state, Date.now())
MapSet(store, key, createdAt) ==
    [k \in DOMAIN store \cup {key} |-> IF k = key THEN createdAt ELSE store[k]]

\* a delete that is never done
MapDeleteSkipped(store, key) == store

\* stateStore.delete(state)
MapDelete(store, key) == [k \in DOMAIN store \ {key} |-> store[k]]

\* an entry taken as expired once its age reaches the TTL
ExpiredAtTtl(createdAt, t) == t - createdAt >= STATE_TTL_MS

\* the predicate of the sweep; createdAt is always a number
Expired(createdAt, t) == t - createdAt > STATE_TTL_MS

\* a sweep that deletes nothing
SweepStoreSkipped(store, t) == store

\* the body of the setInterval callback
SweepStore(store, t) ==
    [k \in {x \in DOMAIN store : ~Expired(store[x], t)} |-> store[k]]

EmptyMap == [k \in {} |-> 0]

(***************************************************************************)
(* Requests                                                                *)
(***************************************************************************)
ValidShop == <<"a", "-", "1">> \o ShopSuffix
BadShop == <<"-", "a">> \o ShopSuffix

\* a query object from its present parameters
Entry(key, val) == IF val.t = "undef" THEN <<>> ELSE <<<<key, val>>>>

BaseQuery(shop, code, state) ==
    Entry(kCode, code) \o Entry(kShop, shop) \o Entry(kState, state)

\* the signature the redirecting party computes with key k
Sign(k, query) == Hex(k, buildHmacMessage(query))

ShopInputs == {Undefined, Str(<<>>), Str(ValidShop), Str(BadShop)}
CodeInputs == {Undefined, Str(<<"c">>)}
StateInputs == {Undefined, Arr(<<TokenStr(1)>>)} \cup {Str(t) : t \in Tokens}

HmacInputs(base) ==
    {Undefined, Str(<<"a", "b">>), Arr(<<<<"a">>>>), Obj,
     Sign(CLIENT_SECRET, base), Sign(OtherKey, base)}

CallbackQueries ==
    UNION {{base \o Entry(kHmac, h) : h \in HmacInputs(base)} :
           base \in {BaseQuery(s, c, st) :
                     s \in ShopInputs, c \in CodeInputs, st \in StateInputs}}

\* What the handler reads off a query: the shop gate (!shop ||
\* !isValidShop(shop)), the code gate (!code), the state parameter, and the
\* result of verifyHmac(req.query)
Facts(query) ==
    [shopOk |-> ~(Falsy(Get(query, kShop)) \/ ~isValidShop(Get(query, kShop))),
     codeOk |-> ~Falsy(Get(query, kCode)),
     state |-> Get(query, kState),
     verified |-> verifyHmac(query)]

CallbackInputs == {Facts(query) : query \in CallbackQueries}

\* the callbacks the redirecting party sends: one per token, signed
TimedQueries ==
    {base \o Entry(kHmac, Sign(CLIENT_SECRET, base)) :
     base \in {BaseQuery(Str(ValidShop), Str(<<"c">>), Str(t)) : t \in Tokens}}

TimedInputs == {Facts(query) : query \in TimedQueries}

(***************************************************************************)
(* GET /install                                                            *)
(***************************************************************************)
R302 == "302 redirect to /admin/oauth/authorize"
R400Install == "400 Invalid ?shop parameter"
R400Shop == "400 Invalid shop parameter"
R400Code == "400 Missing code parameter"
R400State == "400 Invalid or missing state"
R400Hmac == "400 HMAC validation failed"
R500Exchange == "500 Token exchange failed"
R500NoToken == "500 No access_token in response"
R500Internal == "500 Internal error"
R200 == "200 Success"
\* the async handler's promise rejected outside its try block: the handler
\* itself sends no response
Threw == "threw"
Pending == "pending"

\* no callback query
NoInput ==
    [shopOk |-> FALSE, codeOk |-> FALSE, state |-> Undefined, verified |-> "none"]

\* The last thing a handler did towards its client: the response, the state
\* token it concerns, the number of callback gates evaluated, the host of a
\* redirect URL, and what the callback handler read off its query.  What a
\* handler read is itself a query's facts: one with the unread parameters
\* absent, which the handler treats alike.
Response(resp, tok, gates, host, in) ==
    [resp |-> resp, tok |-> tok, gates |-> gates, host |-> host, in |-> in]

NoResponse == Response(Pending, <<>>, 0, <<>>, NoInput)

Install(shop) ==
    /\ IF Falsy(shop) \/ ~isValidShop(shop)
       THEN /\ out' = Response(R400Install, <<>>, 0, <<>>, NoInput)
            /\ UNCHANGED <<stateStore, issued>>
       ELSE /\ issued < MaxInstalls
            /\ LET state == TokenStr(issued + 1) IN
               /\ stateStore' = MapSet(stateStore, state, now)
               /\ out' = Response(R302, state, 0, StringOf(shop), NoInput)
            /\ issued' = issued + 1
    /\ UNCHANGED <<now, nextSweep, reqs, consumed, started, hvars>>

(***************************************************************************)
(* GET /auth/callback                                                      *)
(***************************************************************************)
IdleReq == [pc |-> "idle", tok |-> <<>>]

\* the gates with the token consumed before the signature is verified
CallbackSyncConsumeFirst(in, store) ==
    LET seen1 == [NoInput EXCEPT !.shopOk = in.shopOk]
        seen2 == [seen1 EXCEPT !.codeOk = in.codeOk]
        seen3 == [seen2 EXCEPT !.state = in.state]
        seen4 == [seen3 EXCEPT !.verified = in.verified]
        end(g, r, seen, st) ==
            [pc |-> "idle", gates |-> g, resp |-> r, seen |-> seen, store |-> st]
    IN  IF ~in.shopOk THEN end(1, R400Shop, seen1, store)
        ELSE IF ~in.codeOk THEN end(2, R400Code, seen2, store)
        ELSE IF Falsy(in.state) \/ ~Has(store, in.state)
             THEN end(3, R400State, seen3, store)
        ELSE IF in.verified = "throw"
             THEN end(4, Threw, seen4, MapDelete(store, in.state.v))
        ELSE IF in.verified = "false"
             THEN end(4, R400Hmac, seen4, MapDelete(store, in.state.v))
        ELSE [pc |-> "fetch", gates |-> 4, resp |-> Pending, seen |-> seen4,
              store |-> MapDelete(store, in.state.v)]

\* the gates with the signature verified before the shop is looked at
CallbackSyncHmacFirst(in, store) ==
    LET seen1 == [NoInput EXCEPT !.verified = in.verified]
        seen2 == [seen1 EXCEPT !.shopOk = in.shopOk]
        seen3 == [seen2 EXCEPT !.codeOk = in.codeOk]
        seen4 == [seen3 EXCEPT !.state = in.state]
        end(g, r, seen) ==
            [pc |-> "idle", gates |-> g, resp |-> r, seen |-> seen, store |-> store]
    IN  IF in.verified = "throw" THEN end(1, Threw, seen1)
        ELSE IF in.verified = "false" THEN end(1, R400Hmac, seen1)
        ELSE IF ~in.shopOk THEN end(2, R400Shop, seen2)
        ELSE IF ~in.codeOk THEN end(3, R400Code, seen3)
        ELSE IF Falsy(in.state) \/ ~Has(store, in.state)
             THEN end(4, R400State, seen4)
        ELSE [pc |-> "fetch", gates |-> 4, resp |-> Pending, seen |-> seen4,
              store |-> MapDelete(store, in.state.v)]

\* The handler from its first line to its first await.  gates counts the
\* checks evaluated, seen holds what they read off the query (a parameter
\* that was not read is left as in NoInput), store is the registry the
\* handler leaves.
CallbackSync(in, store) ==
    LET seen1 == [NoInput EXCEPT !.shopOk = in.shopOk]
        seen2 == [seen1 EXCEPT !.codeOk = in.codeOk]
        seen3 == [seen2 EXCEPT !.state = in.state]
        seen4 == [seen3 EXCEPT !.verified = in.verified]
        end(g, r, seen) ==
            [pc |-> "idle", gates |-> g, resp |-> r, seen |-> seen, store |-> store]
    IN  IF ~in.shopOk THEN end(1, R400Shop, seen1)
        ELSE IF ~in.codeOk THEN end(2, R400Code, seen2)
        ELSE IF Falsy(in.state) \/ ~Has(store, in.state)
             THEN end(3, R400State, seen3)
        ELSE IF in.verified = "throw" THEN end(4, Threw, seen4)
        ELSE IF in.verified = "false" THEN end(4, R400Hmac, seen4)
        ELSE [pc |-> "fetch", gates |-> 4, resp |-> Pending, seen |-> seen4,
              store |-> MapDelete(store, in.state.v)]

\* the state parameter as a registry key, <<>> when it cannot be one
KeyOf(state) == IF state.t = "str" THEN state.v ELSE <<>>

\* a request is served by the first free slot: which slot carries no meaning
FreeSlot(r) == reqs[r].pc = "idle" /\ \A s \in 1..(r - 1) : reqs[s].pc # "idle"

Callback(r, in) ==
    /\ FreeSlot(r)
    /\ LET res == CallbackSync(in, stateStore)
           key == KeyOf(res.seen.state)
       IN  /\ reqs' = [reqs EXCEPT ![r] =
                          IF res.pc = "fetch" THEN [pc |-> "fetch", tok |-> key]
                          ELSE IdleReq]
           /\ stateStore' = res.store
           /\ out' = Response(res.resp, key, res.gates, <<>>, res.seen)
           /\ IF res.pc = "fetch"
              THEN /\ consumed' = [consumed EXCEPT ![key] = @ + 1]
                   /\ started' = started + 1
              ELSE UNCHANGED <<consumed, started>>
    /\ UNCHANGED <<now, nextSweep, issued, hvars>>

\* res.send / res.status(...).send of a request past its gates
Finish(r, resp) ==
    /\ reqs' = [reqs EXCEPT ![r] = IdleReq]
    /\ out' = Response(resp, reqs[r].tok, 4, <<>>, NoInput)

\* await fetch(...) settles
FetchOutcomes == {"ok", "not ok", "reject"}

\* a handler that puts the token back when fetch rejects
FetchSettleRestoring(r, o) ==
    /\ reqs[r].pc = "fetch"
    /\ CASE o = "reject" ->
              /\ Finish(r, R500Internal)
              /\ stateStore' = MapSet(stateStore, reqs[r].tok, now)
         [] o = "not ok" ->
              /\ reqs' = [reqs EXCEPT ![r].pc = "text"]
              /\ UNCHANGED <<out, stateStore>>
         [] o = "ok" ->
              /\ reqs' = [reqs EXCEPT ![r].pc = "json"]
              /\ UNCHANGED <<out, stateStore>>
    /\ UNCHANGED <<now, nextSweep, issued, consumed, started, hvars>>

FetchSettle(r, o) ==
    /\ reqs[r].pc = "fetch"
    /\ CASE o = "reject" -> Finish(r, R500Internal)
         [] o = "not ok" -> reqs' = [reqs EXCEPT ![r].pc = "text"] /\ UNCHANGED out
         [] o = "ok" -> reqs' = [reqs EXCEPT ![r].pc = "json"] /\ UNCHANGED out
    /\ UNCHANGED <<now, nextSweep, stateStore, issued, consumed, started, hvars>>

\* await response.text() settles
TextOutcomes == {"resolve", "reject"}

TextSettle(r, o) ==
    /\ reqs[r].pc = "text"
    /\ Finish(r, IF o = "resolve" THEN R500Exchange ELSE R500Internal)
    /\ UNCHANGED <<now, nextSweep, stateStore, issued, consumed, started, hvars>>

\* await response.json() settles: a body with a truthy access_token, a body
\* without one, the body null (json.access_token throws), or no JSON at all
JsonOutcomes == {"token", "no token", "null", "reject"}

\* a body without access_token is answered 500, never 200
JsonResponseUnchecked(o) ==
    CASE o \in {"token", "no token"} -> R200
      [] OTHER -> R500Internal

JsonResponse(o) ==
    CASE o = "token" -> R200
      [] o = "no token" -> R500NoToken
      [] OTHER -> R500Internal

JsonSettle(r, o) ==
    /\ reqs[r].pc = "json"
    /\ Finish(r, JsonResponse(o))
    /\ UNCHANGED <<now, nextSweep, stateStore, issued, consumed, started, hvars>>

\* What the exchange endpoint sends back: how fetch settles, how the read
\* of the body settles, and the content that comes with it (the message of
\* the error, the text of the body, the JSON document).
UpstreamContents == {"invalid_request", "code already used", "{\"error\":\"x\"}"}

Replies ==
    {[fetch |-> "reject", read |-> "none", content |-> c] : c \in UpstreamContents}
    \cup {[fetch |-> "not ok", read |-> o, content |-> c] :
           o \in TextOutcomes, c \in UpstreamContents}
    \cup {[fetch |-> "ok", read |-> o, content |-> c] :
           o \in JsonOutcomes, c \in UpstreamContents}

\* a handler that sends the text of a non-success answer on to its client
ExchangeResultEchoed(reply) ==
    [resp |-> CASE reply.fetch = "reject" -> R500Internal
                [] reply.fetch = "not ok" ->
                     IF reply.read = "resolve" THEN reply.content ELSE R500Internal
                [] OTHER -> JsonResponse(reply.read),
     console |-> reply.content]

\* The try block of the handler as a function of the endpoint's answer: the
\* response sent to the client and what console.error / console.log is
\* given.
ExchangeResult(reply) ==
    [resp |-> CASE reply.fetch = "reject" -> R500Internal
                [] reply.fetch = "not ok" ->
                     IF reply.read = "resolve" THEN R500Exchange ELSE R500Internal
                [] OTHER -> JsonResponse(reply.read),
     console |-> reply.content]

NoResult == [resp |-> Pending, console |-> ""]

NoExchange ==
    [a |-> [fetch |-> "reject", read |-> "none", content |-> "invalid_request"],
     b |-> [fetch |-> "reject", read |-> "none", content |-> "invalid_request"],
     ra |-> NoResult, rb |-> NoResult]

(***************************************************************************)
(* The sweep timer and the clock                                           *)
(***************************************************************************)
Sweep ==
    /\ now >= nextSweep
    /\ stateStore' = SweepStore(stateStore, now)
    /\ nextSweep' = now + SWEEP_INTERVAL_MS
    /\ UNCHANGED <<now, issued, reqs, out, consumed, started, hvars>>

\* time passes; a due sweep runs before the clock moves past it
Tick(limit) ==
    /\ now < limit * TickMs
    /\ now + TickMs <= nextSweep
    /\ now' = now + TickMs
    /\ UNCHANGED <<nextSweep, stateStore, issued, reqs, out, consumed, started, hvars>>

Init ==
    /\ now = 0
    /\ nextSweep = SWEEP_INTERVAL_MS
    /\ stateStore = EmptyMap
    /\ issued = 0
    /\ reqs = [r \in Requests |-> IdleReq]
    /\ out = NoResponse
    /\ consumed = [t \in Tokens |-> 0]
    /\ started = 0
    /\ hq = <<>>
    /\ hmsg = <<>>
    /\ hres = "none"
    /\ hstep = "input"
    /\ vshop = <<>>
    /\ vvalid = FALSE
    /\ vstep = "input"
    /\ up = NoExchange
    /\ env = GoodEnv
    /\ boot = "listening"

Next ==
    \/ \E shop \in ShopInputs : Install(shop)
    \/ \E r \in Requests, in \in CallbackInputs : Callback(r, in)
    \/ \E r \in Requests, o \in FetchOutcomes : FetchSettle(r, o)
    \/ \E r \in Requests, o \in TextOutcomes : TextSettle(r, o)
    \/ \E r \in Requests, o \in JsonOutcomes : JsonSettle(r, o)
    \/ Sweep
    \/ Tick(MaxTicks)

Spec == Init /\ [][Next]_vars

\* The token lifetime: the same handlers over a long clock, serving the
\* callbacks a redirecting party sends.
NextTtl ==
    \/ Install(Str(ValidShop))
    \/ \E r \in Requests, in \in TimedInputs : Callback(r, in)
    \/ \E r \in Requests, o \in FetchOutcomes : FetchSettle(r, o)
    \/ \E r \in Requests, o \in TextOutcomes : TextSettle(r, o)
    \/ \E r \in Requests, o \in JsonOutcomes : JsonSettle(r, o)
    \/ Sweep
    \/ Tick(MaxTtlTicks)

SpecTtl == Init /\ [][NextTtl]_vars

\* The same handlers under the scheduling the runtime guarantees.  The timer
\* of the sweep keeps firing and the clock keeps moving; a token is issued
\* only while the clock of the model has room left for its whole lifetime.
\* Whether await fetch(...) ever settles is up to the exchange endpoint, so
\* no fairness is stated for it.
InstallInTime ==
    /\ now + STATE_TTL_MS + SWEEP_INTERVAL_MS <= MaxTtlTicks * TickMs
    /\ Install(Str(ValidShop))

NextLive ==
    \/ InstallInTime
    \/ \E r \in Requests, in \in TimedInputs : Callback(r, in)
    \/ \E r \in Requests, o \in FetchOutcomes : FetchSettle(r, o)
    \/ \E r \in Requests, o \in TextOutcomes : TextSettle(r, o)
    \/ \E r \in Requests, o \in JsonOutcomes : JsonSettle(r, o)
    \/ Sweep
    \/ Tick(MaxTtlTicks)

TimerFairness == WF_vars(Sweep) /\ WF_vars(Tick(MaxTtlTicks))

SpecTimer == Init /\ [][NextLive]_vars /\ TimerFairness

\* once the endpoint has answered, the body it sends is read to its end
BodyFairness ==
    /\ WF_vars(\E r \in Requests, o \in TextOutcomes : TextSettle(r, o))
    /\ WF_vars(\E r \in Requests, o \in JsonOutcomes : JsonSettle(r, o))

SpecExchange == Init /\ [][NextLive]_vars /\ TimerFairness /\ BodyFairness

(***************************************************************************)
(* verifyHmac and buildHmacMessage on their own: a query object is drawn,  *)
(* verified, and then either reordered or changed in one value and         *)
(* verified again.                                                         *)
(***************************************************************************)
\* parameters of a query besides hmac and signature
MaxParams == 2

KeyPool == << <<"b">>, <<"a">>, <<"c">>, <<"a", "b">> >>

ParamValues ==
    {Str(<<"x">>), Str(<<"x", ",", "y">>), Arr(<<<<"x">>, <<"y">>>>),
     Arr(<<<<"y">>, <<"x">>>>), Obj}

\* the queries over the first n keys of the pool, in the pool's order
RECURSIVE ParamQueries(_)
ParamQueries(n) ==
    IF n = 0 THEN {<<>>}
    ELSE {q \o Entry(KeyPool[n], val) :
          q \in ParamQueries(n - 1), val \in ParamValues \cup {Undefined}}

HmacQueries ==
    UNION {{base \o Entry(kHmac, h) : h \in HmacInputs(base) \cup {Str(<<>>)}} :
           base \in {q \o Entry(kSignature, s) :
                     q \in ParamQueries(MaxParams),
                     s \in {Undefined, Str(<<"s">>)}}}

InitHmac ==
    /\ Init!1 /\ Init!2 /\ Init!3 /\ Init!4
    /\ Init!5 /\ Init!6 /\ Init!7 /\ Init!8
    /\ hq \in HmacQueries
    /\ hmsg = <<>>
    /\ hres = "none"
    /\ hstep = "input"
    /\ Init!13 /\ Init!14 /\ Init!15 /\ Init!16
    /\ Init!17 /\ Init!18

Applied(query) ==
    /\ hq' = query
    /\ hmsg' = buildHmacMessage(query)
    /\ hres' = verifyHmac(query)
    /\ UNCHANGED <<pvars, xvars, bvars>>

HVerify ==
    /\ hstep = "input"
    /\ Applied(hq)
    /\ hstep' = "verified"
    /\ UNCHANGED svars

Swap(query, i, j) ==
    [k \in 1..Len(query) |->
        IF k = i THEN query[j] ELSE IF k = j THEN query[i] ELSE query[k]]

\* the same parameters, received in another order
HReorder(i, j) ==
    /\ hstep = "verified"
    /\ i < j /\ j <= Len(hq)
    /\ Applied(Swap(hq, i, j))
    /\ hstep' = "reordered"
    /\ UNCHANGED svars

IsSignatureKey(key) == key \in {kHmac, kSignature}

\* one parameter that is not a signature field gets another value
HChange(i, val) ==
    /\ hstep = "verified"
    /\ i <= Len(hq)
    /\ ~IsSignatureKey(hq[i][1])
    /\ val # hq[i][2]
    /\ Applied([hq EXCEPT ![i] = <<hq[i][1], val>>])
    /\ hstep' = "changed"
    /\ UNCHANGED svars

NextHmac ==
    \/ HVerify
    \/ \E i, j \in 1..(MaxParams + 2) : HReorder(i, j)
    \/ \E i \in 1..(MaxParams + 2), val \in ParamValues : HChange(i, val)

SpecHmac == InitHmac /\ [][NextHmac]_vars

(***************************************************************************)
(* isValidShop on its own: a string is drawn and tested, then one          *)
(* character is put before or after it and it is tested again.             *)
(***************************************************************************)
\* characters of a drawn string before its suffix
MaxLabel == 2

LabelChars == {"a", "1", "-", "."}

RECURSIVE Labels(_)
Labels(n) ==
    IF n = 0 THEN {<<>>}
    ELSE Labels(n - 1)
         \cup {l \o <<c>> : l \in Labels(n - 1), c \in LabelChars}

\* the suffix, and strings that are near it
Suffixes ==
    {ShopSuffix,
     <<".", "n", "o", "t", "s", "h", "o", "p", "i", "f", "y", ".", "c", "o", "m">>,
     <<"x", "m", "y", "s", "h", "o", "p", "i", "f", "y", ".", "c", "o", "m">>,
     <<".", "m", "y", "s", "h", "o", "p", "i", "f", "y", ".", "c", "o">>,
     <<".", "M", "y", "s", "h", "o", "p", "i", "f", "y", ".", "c", "o", "m">>,
     <<>>}

ExampleShops ==
    {<<"a", "b", "c", "-", "1">> \o ShopSuffix,
     <<"-", "a", "b", "c">> \o ShopSuffix,
     <<"a", "b", "c", ".", "n", "o", "t", "s", "h", "o", "p", "i", "f", "y",
       ".", "c", "o", "m">>,
     <<>>}

ShopStrings ==
    ExampleShops \cup {l \o x : l \in Labels(MaxLabel), x \in Suffixes}

\* characters put before or after a string
ExtraChars == {"a", "Z", "9", "-", ".", "/", " ", "_", "%"}

InitShop ==
    /\ Init!1 /\ Init!2 /\ Init!3 /\ Init!4
    /\ Init!5 /\ Init!6 /\ Init!7 /\ Init!8
    /\ Init!9 /\ Init!10 /\ Init!11 /\ Init!12
    /\ vshop \in ShopStrings
    /\ vvalid = FALSE
    /\ vstep = "input"
    /\ Init!16 /\ Init!17 /\ Init!18

Tested(s) ==
    /\ vshop' = s
    /\ vvalid' = isValidShop(Str(s))
    /\ UNCHANGED <<svars, qvars, xvars, bvars>>

VTest ==
    /\ vstep = "input"
    /\ Tested(vshop)
    /\ vstep' = "tested"

VBefore(c) ==
    /\ vstep = "tested"
    /\ Tested(<<c>> \o vshop)
    /\ vstep' = "before"

VAfter(c) ==
    /\ vstep = "tested"
    /\ Tested(vshop \o <<c>>)
    /\ vstep' = "after"

NextShop ==
    \/ VTest
    \/ \E c \in ExtraChars : VBefore(c)
    \/ \E c \in ExtraChars : VAfter(c)

SpecShop == InitShop /\ [][NextShop]_vars

(***************************************************************************)
(* The exchange on its own: two callbacks past their gates, alike but for  *)
(* what the exchange endpoint answers them.                                *)
(***************************************************************************)
InitExchange ==
    /\ Init!1 /\ Init!2 /\ Init!3 /\ Init!4
    /\ Init!5 /\ Init!6 /\ Init!7 /\ Init!8
    /\ Init!9 /\ Init!10 /\ Init!11 /\ Init!12
    /\ Init!13 /\ Init!14 /\ Init!15
    /\ up \in {[NoExchange EXCEPT !.a = x, !.b = y] : x, y \in Replies}
    /\ Init!17 /\ Init!18

XRunA ==
    /\ up.ra = NoResult
    /\ up' = [up EXCEPT !.ra = ExchangeResult(up.a)]
    /\ UNCHANGED <<svars, qvars, pvars, bvars>>

XRunB ==
    /\ up.rb = NoResult
    /\ up' = [up EXCEPT !.rb = ExchangeResult(up.b)]
    /\ UNCHANGED <<svars, qvars, pvars, bvars>>

NextExchange == XRunA \/ XRunB

SpecUpstream == InitExchange /\ [][NextExchange]_vars

(***************************************************************************)
(* Start-up: the process is started with some environment, runs the        *)
(* module's top level, and serves requests once it listens.                *)
(***************************************************************************)
Envs ==
    [SHOPIFY_CLIENT_ID : {Undefined, Str(<<>>), Str(<<"k">>), Str(<<"k", " ">>)},
     SHOPIFY_CLIENT_SECRET :
         {Undefined, Str(<<>>), Str(<<" ">>), Str(<<"k">>), Str(<<"k", " ">>),
          Str(<<"s">>)},
     SHOPIFY_SCOPES : {Undefined, Str(<<>>), Str(<<"r">>)},
     SHOPIFY_REDIRECT_URI : {Undefined, Str(<<>>), Str(<<"u">>)}]

InitStartup ==
    /\ Init!1 /\ Init!2 /\ Init!3 /\ Init!4
    /\ Init!5 /\ Init!6 /\ Init!7 /\ Init!8
    /\ Init!9 /\ Init!10 /\ Init!11 /\ Init!12
    /\ Init!13 /\ Init!14 /\ Init!15 /\ Init!16
    /\ env \in Envs
    /\ boot = "starting"

Startup ==
    /\ boot = "starting"
    /\ boot' = StartupOutcome(env)
    /\ UNCHANGED <<svars, qvars, pvars, xvars, env>>

\* requests reach the handlers only once app.listen was called
ServeInstall(shop) == boot = "listening" /\ Install(shop)

ServeCallback(r, in) == boot = "listening" /\ Callback(r, in)

NextStartup ==
    \/ Startup
    \/ \E shop \in {Str(ValidShop), Str(BadShop)} : ServeInstall(shop)
    \/ \E r \in Requests, in \in TimedInputs : ServeCallback(r, in)

SpecStartup == InitStartup /\ [][NextStartup]_vars

(***************************************************************************)
(* Properties of the state registry and the callback gates                 *)
(***************************************************************************)
IssuedTokens == {TokenStr(n) : n \in 1..issued}

\* the HTTP status of a response, 0 when the handler sent none
StatusOf(resp) ==
    CASE resp \in {R400Install, R400Shop, R400Code, R400State, R400Hmac} -> 400
      [] resp \in {R500Exchange, R500NoToken, R500Internal} -> 500
      [] resp = R200 -> 200
      [] resp = R302 -> 302
      [] OTHER -> 0

\* C1: state tokens are single-use.  A callback that presents an issued
\* token with a valid shop, a code and a valid hmac while the token is in the
\* registry consumes it (the token is removed and the handler goes on to the
\* exchange); no token is consumed twice; once a token has been consumed,
\* every callback that presents it with a valid shop and a code is answered
\* 400 'Invalid or missing state' and changes nothing.
C1_SingleUse ==
    [][ /\ \A t \in Tokens : consumed'[t] <= 1
        /\ \A r \in Requests :
             LET in == out'.in
                 t == KeyOf(in.state)
             IN  (Callback(r, in) /\ in.shopOk /\ in.codeOk /\ t \in IssuedTokens)
                 => /\ (in.verified = "true" /\ t \in DOMAIN stateStore)
                       => /\ consumed[t] = 0 /\ consumed'[t] = 1
                          /\ t \notin DOMAIN stateStore'
                          /\ reqs'[r] = [pc |-> "fetch", tok |-> t]
                    /\ consumed[t] > 0
                       => /\ out'.resp = R400State /\ out'.tok = t
                          /\ reqs'[r].pc = "idle"
                          /\ UNCHANGED <<stateStore, consumed, started>>
      ]_vars

\* a replay of a consumed token was rejected
C1_Witness ==
    \E t \in Tokens : consumed[t] = 1 /\ out.resp = R400State /\ out.tok = t

\* C2: the callback enforces the TTL itself.  A callback that presents a
\* token whose age exceeds STATE_TTL_MS and that the sweep has not removed
\* yet is answered 400 'Invalid or missing state' and consumes nothing.
C2_CallbackEnforcesTtl ==
    [][ \A r \in Requests :
          LET in == out'.in IN
          (/\ Callback(r, in) /\ in.shopOk /\ in.codeOk
           /\ Has(stateStore, in.state)
           /\ Expired(stateStore[KeyOf(in.state)], now))
          => /\ out'.resp = R400State
             /\ UNCHANGED <<consumed, started>>
      ]_vars

\* C3: of the callbacks handled concurrently with the same state token at
\* most one passes the state gate; the step in which a handler passes the
\* gate is the step that removes the token, and no handler suspended at an
\* await holds that token.
C3_AtMostOnePasses ==
    [][ \A t \in Tokens :
          consumed'[t] # consumed[t]
          => /\ consumed[t] = 0 /\ consumed'[t] = 1
             /\ t \in DOMAIN stateStore /\ t \notin DOMAIN stateStore'
             /\ \A r \in Requests : reqs[r].pc # "idle" => reqs[r].tok # t
             /\ Cardinality({r \in Requests :
                              reqs'[r].pc # "idle" /\ reqs'[r].tok = t}) = 1
      ]_vars

\* a second callback was rejected while the first is still at its exchange
C3_Witness ==
    \E r \in Requests :
        reqs[r].pc # "idle" /\ out.resp = R400State /\ out.tok = reqs[r].tok

\* C4: a callback that fails signature validation consumes nothing.  When
\* verifyHmac returns false the answer is 400 'HMAC validation failed';
\* whenever verifyHmac did not return true the registry is left as it was;
\* a callback changes the registry only by removing the token it presented,
\* after verifyHmac returned true.
C4_FailedSignatureKeepsStore ==
    [][ \A r \in Requests :
          LET in == out'.in IN
          Callback(r, in)
          => /\ in.verified = "false"
                => out'.resp = R400Hmac /\ reqs'[r].pc = "idle"
             /\ in.verified # "true"
                => UNCHANGED <<stateStore, consumed, started>>
             /\ stateStore' # stateStore
                => /\ in.verified = "true"
                   /\ KeyOf(in.state) \in DOMAIN stateStore
                   /\ stateStore' = [k \in DOMAIN stateStore \ {KeyOf(in.state)}
                                       |-> stateStore[k]]
      ]_vars

\* a badly signed callback was rejected and both flows' tokens are present
C4_Witness ==
    /\ out.resp = R400Hmac
    /\ out.in.verified = "false"
    /\ out.tok \in DOMAIN stateStore
    /\ Cardinality(DOMAIN stateStore) >= 2

\* C5: a callback whose shop is missing or invalid is answered 400 'Invalid
\* shop parameter' after the shop check alone: neither the code, nor the
\* state lookup, nor the signature validation is evaluated, and the registry
\* is unchanged.
C5_ShopGateShortCircuits ==
    [][ \A r \in Requests :
          LET in == out'.in IN
          (Callback(r, in) /\ ~in.shopOk)
          => /\ out'.resp = R400Shop
             /\ out'.gates = 1
             /\ in = NoInput
             /\ UNCHANGED <<stateStore, reqs, consumed, started>>
      ]_vars

\* a callback with a bad shop was rejected while a token is in the registry
C5_Witness ==
    out.resp = R400Shop /\ out.gates = 1 /\ DOMAIN stateStore # {}

\* C6: every callback request ends in one of the listed outcomes: 400 when
\* the shop is invalid, the code is missing, the state is missing or not in
\* the registry, or the signature does not verify; 500 when the exchange
\* call rejects, answers non-success or answers without an access token; 200
\* otherwise.
C6_Outcomes ==
    [][ /\ \A r \in Requests :
             LET in == out'.in IN
             Callback(r, in)
             => IF \/ ~in.shopOk \/ ~in.codeOk
                   \/ Falsy(in.state) \/ ~Has(stateStore, in.state)
                   \/ in.verified # "true"
                THEN StatusOf(out'.resp) = 400 /\ reqs'[r].pc = "idle"
                ELSE out'.resp = Pending /\ reqs'[r].pc = "fetch"
        /\ \A r \in Requests, o \in FetchOutcomes :
             FetchSettle(r, o)
             => IF o = "reject"
                THEN StatusOf(out'.resp) = 500 /\ reqs'[r].pc = "idle"
                ELSE reqs'[r].pc # "idle"
        /\ \A r \in Requests, o \in TextOutcomes :
             TextSettle(r, o) => StatusOf(out'.resp) = 500 /\ reqs'[r].pc = "idle"
        /\ \A r \in Requests, o \in JsonOutcomes :
             JsonSettle(r, o)
             => /\ StatusOf(out'.resp) = IF o = "token" THEN 200 ELSE 500
                /\ reqs'[r].pc = "idle"
      ]_vars

\* C7: 200 is sent only by a handler that passed all four gates (valid
\* shop, code present, state in the registry, hmac verified), whose token
\* was removed at the gates, whose exchange answered success, and whose JSON
\* body carried an access token.  A non-success answer or a body without an
\* access token ends with 500.
C7_SuccessOnlyAfterAllGates ==
    [][ /\ \A r \in Requests :
             LET in == out'.in IN
             Callback(r, in)
             => /\ out'.resp # R200
                /\ reqs'[r].pc # "idle"
                   => /\ in.shopOk /\ in.codeOk /\ in.verified = "true"
                      /\ out'.gates = 4
                      /\ Has(stateStore, in.state) /\ ~Has(stateStore', in.state)
                      /\ reqs'[r] = [pc |-> "fetch", tok |-> KeyOf(in.state)]
        /\ \A shop \in ShopInputs : Install(shop) => out'.resp # R200
        /\ \A r \in Requests, o \in FetchOutcomes :
             FetchSettle(r, o)
             => /\ reqs'[r].pc = "json" <=> o = "ok"
                /\ reqs'[r].pc = "text" <=> o = "not ok"
                /\ IF o = "reject"
                   THEN reqs'[r].pc = "idle" /\ StatusOf(out'.resp) = 500
                   ELSE out' = out
        /\ \A r \in Requests, o \in TextOutcomes :
             TextSettle(r, o) => StatusOf(out'.resp) = 500
        /\ \A r \in Requests, o \in JsonOutcomes :
             JsonSettle(r, o)
             => /\ out'.resp = R200 <=> o = "token"
                /\ o # "token" => StatusOf(out'.resp) = 500
                /\ out'.tok = reqs[r].tok
                /\ consumed[reqs[r].tok] = 1
                /\ reqs[r].tok \notin DOMAIN stateStore'
        /\ (out'.resp = R200 /\ out' # out)
           => \E r \in Requests : reqs[r].pc = "json" /\ reqs'[r].pc = "idle"
      ]_vars

\* a callback was answered 200, its token consumed and gone
C7_Witness ==
    /\ out.resp = R200
    /\ out.tok \in IssuedTokens
    /\ consumed[out.tok] = 1
    /\ out.tok \notin DOMAIN stateStore

\* C8: /install with a missing or invalid shop answers 400 and leaves the
\* registry unchanged; with a valid shop it inserts exactly one new token
\* with the current time, changes no other entry, and redirects to the
\* shop's /admin/oauth/authorize with that token as state.
C8_Install ==
    [][ \A shop \in ShopInputs :
          Install(shop)
          => IF shop = Str(ValidShop)
             THEN LET t == out'.tok IN
                  /\ out'.resp = R302 /\ out'.host = ValidShop
                  /\ t \notin DOMAIN stateStore
                  /\ DOMAIN stateStore' = DOMAIN stateStore \cup {t}
                  /\ stateStore'[t] = now
                  /\ \A k \in DOMAIN stateStore : stateStore'[k] = stateStore[k]
             ELSE /\ out'.resp = R400Install
                  /\ UNCHANGED <<stateStore, issued>>
      ]_vars

\* a second token was issued, after the clock moved, beside the first
C8_Witness ==
    /\ out.resp = R302
    /\ out.tok \in DOMAIN stateStore
    /\ stateStore[out.tok] = now /\ now > 0
    /\ \E k \in DOMAIN stateStore : k # out.tok /\ stateStore[k] < now

(***************************************************************************)
(* Properties of verifyHmac and buildHmacMessage                           *)
(***************************************************************************)
\* C9: verifyHmac never throws, whatever the shape of the parameters, and
\* returns false whenever the hmac field is absent, its byte length differs
\* from that of the computed digest, or it is not the computed digest.
C9_VerifyNeverThrows ==
    hstep # "input"
    => LET hmac == Get(hq, kHmac) IN
       /\ hres \in {"true", "false"}
       /\ (\/ hmac = Undefined
           \/ ByteLength(hmac) # HexDigestLen
           \/ hmac # Hex(CLIENT_SECRET, hmsg))
          => hres = "false"

\* the message cut at every occurrence of the separator
RECURSIVE SplitOn(_, _)
SplitOn(s, sep) ==
    IF \E i \in 1..Len(s) : s[i] = sep
    THEN LET i == CHOOSE k \in 1..Len(s) :
                      s[k] = sep /\ \A l \in 1..(k - 1) : s[l] # sep
         IN  <<SubSeq(s, 1, i - 1)>> \o SplitOn(SubSeq(s, i + 1, Len(s)), sep)
    ELSE <<s>>

MessageParts(message) == IF message = <<>> THEN <<>> ELSE SplitOn(message, "&")

\* encode(key)=encode(value), the value flattened to a string
ExpectedPart(query, key) ==
    encodeURIComponent(key) \o <<"=">>
    \o encodeURIComponent(FlatValue(Get(query, key)))

SignedKeys(query) ==
    {query[i][1] : i \in 1..Len(query)} \ {kHmac, kSignature}

\* the message holds one part per parameter that is not a signature field,
\* none for hmac or signature, in the order of the sorted keys
WellFormedMessage(query, message) ==
    LET parts == MessageParts(message)
        at(key) == CHOOSE i \in 1..Len(parts) : parts[i] = ExpectedPart(query, key)
    IN  /\ Len(parts) = Cardinality(SignedKeys(query))
        /\ \A key \in SignedKeys(query) :
             Cardinality({i \in 1..Len(parts) :
                          parts[i] = ExpectedPart(query, key)}) = 1
        /\ \A i \in 1..Len(parts) :
             /\ SplitOn(parts[i], "=")[1] \notin {kHmac, kSignature}
             /\ Len(SplitOn(parts[i], "=")) = 2
        /\ \A k1, k2 \in SignedKeys(query) : StrLess(k1, k2) => at(k1) < at(k2)

\* C10 as stated: the message is well formed, a reordering of the
\* parameters changes neither message nor result, and changing the value of
\* any parameter that is not a signature field changes the message and
\* makes a signature that verified fail.
C10_AnyValueChangeBreaksSignature ==
    [][ /\ WellFormedMessage(hq', hmsg')
        /\ \A i, j \in 1..Len(hq) :
             HReorder(i, j) => hmsg' = hmsg /\ hres' = hres
        /\ \A i \in 1..Len(hq), val \in ParamValues :
             HChange(i, val)
             => /\ hmsg' # hmsg
                /\ hres = "true" => hres' = "false"
      ]_vars

\* C10, amended: the message is well formed (no part for hmac or signature,
\* one part encode(key)=encode(value) for every other parameter, sorted by
\* key, joined with '&'); a reordering of the parameters changes neither
\* message nor result; changing the flattened value of a parameter that is
\* not a signature field (an array joined with ',', anything else coerced to
\* a string) changes the message and makes a signature that verified fail,
\* while a change that keeps the flattened value keeps message and result.
C10_SignedMessage ==
    [][ /\ WellFormedMessage(hq', hmsg')
        /\ \A i, j \in 1..Len(hq) :
             HReorder(i, j) => hmsg' = hmsg /\ hres' = hres
        /\ \A i \in 1..Len(hq), val \in ParamValues :
             HChange(i, val)
             => IF FlatValue(val) # FlatValue(hq[i][2])
                THEN /\ hmsg' # hmsg
                     /\ hres = "true" => hres' = "false"
                ELSE hmsg' = hmsg /\ hres' = hres
      ]_vars

\* a signed query with a signature field still verifies after a reordering
\* that left its keys unsorted
C10_Witness ==
    /\ hstep = "reordered"
    /\ hres = "true"
    /\ \E i \in 1..Len(hq) : hq[i][1] = kSignature
    /\ \E i, j \in 1..Len(hq) :
         /\ i < j /\ StrLess(hq[j][1], hq[i][1])
         /\ ~IsSignatureKey(hq[i][1]) /\ ~IsSignatureKey(hq[j][1])

\* the elements of an array, each percent-encoded, with the encoded comma
\* %2C between them, in the order given
RECURSIVE CommaEncoded(_)
CommaEncoded(arr) ==
    IF arr = <<>> THEN <<>>
    ELSE IF Len(arr) = 1 THEN encodeURIComponent(arr[1])
    ELSE encodeURIComponent(arr[1]) \o <<"%", "2", "C">> \o CommaEncoded(Tail(arr))

\* C11: an array-valued parameter enters the signed message as its elements
\* joined with a comma in the order received, then percent-encoded: the
\* message has the part key=e1%2Ce2..., for {a: ["x","y"], hmac: H} it is
\* a=x%2Cy, and giving the elements in another order gives another message.
C11_ArrayJoinedInOrder ==
    [][ /\ \A i \in 1..Len(hq') :
             (hq'[i][2].t = "arr" /\ ~IsSignatureKey(hq'[i][1]))
             => \E p \in 1..Len(MessageParts(hmsg')) :
                  MessageParts(hmsg')[p] =
                      encodeURIComponent(hq'[i][1]) \o <<"=">>
                      \o CommaEncoded(hq'[i][2].v)
        /\ \A h \in {Undefined, Sign(CLIENT_SECRET, <<>>)} :
             hq' = Entry(<<"a">>, Arr(<<<<"x">>, <<"y">>>>)) \o Entry(kHmac, h)
             => hmsg' = <<"a", "=", "x", "%", "2", "C", "y">>
        /\ \A i \in 1..Len(hq), val \in ParamValues :
             (/\ HChange(i, val)
              /\ hq[i][2].t = "arr" /\ val.t = "arr" /\ val.v # hq[i][2].v)
             => hmsg' # hmsg
      ]_vars

\* {a: ["x","y"], hmac: H} with H the valid signature was verified
C11_Witness ==
    /\ hstep = "verified"
    /\ hres = "true"
    /\ hq = <<<<<<"a">>, Arr(<<<<"x">>, <<"y">>>>)>>,
              <<kHmac, Hex(CLIENT_SECRET, hmsg)>>>>
    /\ hmsg = <<"a", "=", "x", "%", "2", "C", "y">>

(***************************************************************************)
(* Properties of isValidShop                                               *)
(***************************************************************************)
\* one alphanumeric character, then alphanumeric characters or hyphens
IsLabel(l) ==
    /\ l # <<>>
    /\ Head(l) \in AlphaNum
    /\ \A i \in 2..Len(l) : l[i] \in AlphaNum \cup {"-"}

\* a label followed by the literal suffix and nothing else
ShopShape(s) ==
    \E k \in 0..Len(s) :
        IsLabel(SubSeq(s, 1, k)) /\ SubSeq(s, k + 1, Len(s)) = ShopSuffix

\* C12: isValidShop accepts a string exactly when it is one alphanumeric
\* character, then any number of alphanumeric or hyphen characters, then
\* '.myshopify.com'.  It accepts abc-1.myshopify.com and rejects
\* -abc.myshopify.com, abc.notshopify.com and the empty string; a character
\* after an accepted string, or a character before it that is not
\* alphanumeric, makes it rejected.
C12_ShopShape ==
    [][ /\ vstep' # "input" => (vvalid' <=> ShopShape(vshop'))
        /\ vstep' # "input"
           => /\ vshop' = <<"a", "b", "c", "-", "1">> \o ShopSuffix => vvalid'
              /\ vshop' \in ExampleShops \ {<<"a", "b", "c", "-", "1">> \o ShopSuffix}
                 => ~vvalid'
        /\ \A c \in ExtraChars :
             /\ (VAfter(c) /\ vvalid) => ~vvalid'
             /\ (VBefore(c) /\ vvalid /\ c \notin AlphaNum) => ~vvalid'
      ]_vars

\* an accepted string was rejected with a hyphen put before it
C12_Witness ==
    /\ vstep = "before"
    /\ ~vvalid
    /\ Head(vshop) = "-"
    /\ ShopShape(Tail(vshop))

(***************************************************************************)
(* Properties of the token exchange                                        *)
(***************************************************************************)
\* C13: the exchange call is bounded in time.  Every callback that has
\* started the exchange is eventually answered, also when the exchange
\* endpoint never answers.
C13_ExchangeEventuallyAnswered ==
    \A r \in Requests : (reqs[r].pc = "fetch") ~> (reqs[r].pc = "idle")

\* the bodies the handler sends with status 500
FailureBodies == {R500Exchange, R500NoToken, R500Internal}

\* C14: on a failure of the exchange the response sent to the client does
\* not depend on what the endpoint sent: two runs whose answers from the
\* endpoint are of the same kind (fetch and the read of the body settle the
\* same way) and differ in content get the same response, one of the fixed
\* 500 bodies whenever the kind is a failure.
C14_FailureBodyIndependent ==
    (up.ra # NoResult /\ up.rb # NoResult)
    => /\ (up.a.fetch = up.b.fetch /\ up.a.read = up.b.read)
          => up.ra.resp = up.rb.resp
       /\ \A x \in {<<up.a, up.ra>>, <<up.b, up.rb>>} :
            IF x[1].fetch = "ok" /\ x[1].read = "token"
            THEN x[2].resp = R200
            ELSE x[2].resp \in FailureBodies /\ StatusOf(x[2].resp) = 500

\* two non-success answers with different texts got the same 500 response
C14_Witness ==
    /\ up.a.fetch = "not ok" /\ up.b.fetch = "not ok"
    /\ up.a.read = "resolve" /\ up.b.read = "resolve"
    /\ up.a.content # up.b.content
    /\ up.ra.console = up.a.content /\ up.rb.console = up.b.content
    /\ up.ra.resp = R500Exchange /\ up.rb.resp = R500Exchange

(***************************************************************************)
(* Properties of the start-up                                              *)
(***************************************************************************)
\* C15: start-up fails fast.  When the client id, the client secret, the
\* scopes or the redirect URI is missing, or the client secret equals the
\* client id, the process never listens: no request is answered and no
\* token is issued.
C15_StartupFailsFast ==
    (\/ Falsy(env.SHOPIFY_CLIENT_ID) \/ Falsy(env.SHOPIFY_CLIENT_SECRET)
     \/ Falsy(env.SHOPIFY_SCOPES) \/ Falsy(env.SHOPIFY_REDIRECT_URI)
     \/ env.SHOPIFY_CLIENT_SECRET = env.SHOPIFY_CLIENT_ID)
    => /\ boot # "listening"
       /\ issued = 0 /\ stateStore = EmptyMap
       /\ out = NoResponse

(***************************************************************************)
(* Properties of the sweep and of the life of a token                      *)
(***************************************************************************)
\* C16: a run of the sweep removes exactly the entries older than the TTL.
\* Right after it no entry with now - createdAt > STATE_TTL_MS remains;
\* every entry whose age is within the TTL is still there with its creation
\* time; nothing is added.
C16_SweepRemovesExactlyExpired ==
    [][ Sweep
        => /\ \A k \in DOMAIN stateStore' : now - stateStore'[k] <= STATE_TTL_MS
           /\ \A k \in DOMAIN stateStore :
                IF now - stateStore[k] > STATE_TTL_MS
                THEN k \notin DOMAIN stateStore'
                ELSE k \in DOMAIN stateStore' /\ stateStore'[k] = stateStore[k]
           /\ DOMAIN stateStore' \subseteq DOMAIN stateStore
      ]_vars

\* the sweep has just run: it removed a token nobody consumed and kept one
\* whose age is exactly the TTL
C16_Witness ==
    /\ nextSweep = now + SWEEP_INTERVAL_MS
    /\ \E t1 \in IssuedTokens : consumed[t1] = 0 /\ t1 \notin DOMAIN stateStore
    /\ \E t2 \in DOMAIN stateStore : now - stateStore[t2] = STATE_TTL_MS

\* C17: the life of a token.  A token enters the registry only in an
\* /install step that answers 302 with it; it leaves only in the callback
\* step that consumes it or in a sweep step that finds it older than the
\* TTL; and, the sweep timer firing and the clock advancing, every token in
\* the registry is eventually out of it.
C17_TokenLifecycle ==
    /\ [][ \A t \in Tokens :
             /\ (t \notin DOMAIN stateStore /\ t \in DOMAIN stateStore')
                => /\ Install(Str(ValidShop))
                   /\ out'.resp = R302 /\ out'.tok = t
                   /\ issued' = issued + 1 /\ t = TokenStr(issued')
             /\ (t \in DOMAIN stateStore /\ t \notin DOMAIN stateStore')
                => \/ /\ consumed'[t] = consumed[t] + 1
                      /\ \E r \in Requests :
                           /\ Callback(r, out'.in)
                           /\ reqs'[r] = [pc |-> "fetch", tok |-> t]
                   \/ Sweep /\ now - stateStore[t] > STATE_TTL_MS
         ]_vars
    /\ \A t \in Tokens : (t \in DOMAIN stateStore) ~> (t \notin DOMAIN stateStore)

\* one token left through the sweep, the other through its callback
C17_Witness ==
    /\ issued = MaxInstalls
    /\ stateStore = EmptyMap
    /\ \E t1, t2 \in IssuedTokens : consumed[t1] = 0 /\ consumed[t2] = 1

\* C18: the token is consumed before the exchange begins.  Whenever a
\* handler is suspended in the exchange (at fetch or at the read of the
\* body), its state token is absent from the registry, and the steps the
\* handler takes from there to its response leave the registry as it is.
C18_ConsumedBeforeExchange ==
    [][ \A r \in Requests :
          /\ reqs'[r].pc # "idle"
             => /\ reqs'[r].tok \in IssuedTokens
                /\ reqs'[r].tok \notin DOMAIN stateStore'
          /\ (reqs[r].pc # "idle" /\ reqs'[r] # reqs[r])
             => /\ UNCHANGED stateStore
                /\ reqs'[r].tok \in {reqs[r].tok, <<>>}
      ]_vars

\* an exchange is in flight, its token gone, another flow's token present
C18_Witness ==
    \E r \in Requests :
        /\ reqs[r].pc = "fetch"
        /\ reqs[r].tok \notin DOMAIN stateStore
        /\ DOMAIN stateStore # {}
        /\ out.resp = Pending /\ out.tok = reqs[r].tok

\* C19: the exchange calls never outnumber the tokens issued.  Each issued
\* token has started at most one exchange, a token value /install did not
\* issue has started none, and the calls started are those of the tokens
\* consumed.
C19_ExchangesWithinIssued ==
    /\ started <= issued
    /\ \A t \in Tokens :
         /\ consumed[t] <= 1
         /\ consumed[t] > 0 => t \in IssuedTokens
    /\ started = Cardinality({t \in Tokens : consumed[t] > 0})
    /\ \A r \in Requests : reqs[r].pc # "idle" => consumed[reqs[r].tok] = 1

\* every issued token has had its one exchange, and a token value that was
\* never issued has just been turned away
C19_Witness ==
    /\ issued >= 1 /\ started = issued
    /\ out.resp = R400State
    /\ out.in.state.t = "str"
    /\ out.tok \in Tokens \ IssuedTokens

\* C20: a consumed token is never restored.  A token that was consumed is
\* absent from the registry from then on; a handler that ends its exchange
\* with a 500 leaves the registry as it is, its token absent; a callback
\* that presents a consumed token again, validly signed, is answered 400
\* 'Invalid or missing state' and starts no exchange; /install answers with
\* a token that was never consumed.
C20_ConsumedNeverRestored ==
    [][ /\ \A t \in Tokens : consumed[t] > 0 => t \notin DOMAIN stateStore'
        /\ \A r \in Requests :
             (reqs[r].pc # "idle" /\ reqs'[r].pc = "idle")
             => /\ out'.tok = reqs[r].tok
                /\ StatusOf(out'.resp) \in {200, 500}
                /\ out'.tok \notin DOMAIN stateStore'
                /\ UNCHANGED <<stateStore, consumed, started>>
        /\ \A r \in Requests :
             LET in == out'.in IN
             (/\ Callback(r, in) /\ in.shopOk /\ in.codeOk
              /\ in.state.t = "str" /\ in.state.v \in Tokens
              /\ consumed[in.state.v] > 0)
             => /\ out'.resp = R400State
                /\ reqs'[r].pc = "idle"
                /\ UNCHANGED <<stateStore, consumed, started>>
        /\ \A shop \in ShopInputs :
             (Install(shop) /\ out'.resp = R302)
             => consumed[out'.tok] = 0 /\ out'.tok \notin DOMAIN stateStore
      ]_vars

\* an exchange has failed: the handler answered 500, its token is consumed
\* and absent, no handler is left in flight
C20_Witness ==
    /\ StatusOf(out.resp) = 500
    /\ out.tok \in IssuedTokens
    /\ consumed[out.tok] = 1
    /\ out.tok \notin DOMAIN stateStore
    /\ \A r \in Requests : reqs[r].pc = "idle"

====
